---- MODULE Spec2Model ----
(***************************************************************************)
(* Model of the rusty-processing pipeline: the processing engine           *)
(* (processing/src/processing/processor.rs), its derivation strategies,    *)
(* and the command line harness (cli/src/main.rs) that pumps the engine's  *)
(* output channel into the archive writer.                                 *)
(***************************************************************************)
EXTENDS Integers, Sequences, FiniteSets, TLC

\* ------------------------------------------------------------------------
\* Bounds of the model
\* ------------------------------------------------------------------------

\* capacity of the output channel (tokio::sync::mpsc::channel(100) in the code)
OutCap == 1

\* capacity of the archive-entry channel (channel(100) in the code)
ArcCap == 1

\* size of the worker pool (OUTPUT_HANDLING_THREADS = 1000 in the code)
PoolSize == 2

\* ------------------------------------------------------------------------
\* Paths (std::path::PathBuf as used by build_archive_path)
\* ------------------------------------------------------------------------

\* a relative one-component path, such as a checksum or a leaf name
Rel(s) == [abs |-> FALSE, comps |-> <<s>>]

\* an absolute one-component path, such as "/evil.txt"
Abs(s) == [abs |-> TRUE, comps |-> <<s>>]

\* PathBuf::new()
EmptyPath == [abs |-> FALSE, comps |-> <<>>]

\* PathBuf::push: an absolute argument replaces the path, a relative one extends it
PathPush(path, p) ==
    IF p.abs THEN p ELSE [abs |-> path.abs, comps |-> path.comps \o p.comps]

RECURSIVE PushAll(_, _)
PushAll(path, ids) ==
    IF ids = <<>> THEN path
    ELSE PushAll(PathPush(path, Rel(Head(ids))), Tail(ids))

\* build_archive_path without the loop over id_chain
build_archive_path_leaf(id_chain, name) == PathPush(EmptyPath, name)

\* build_archive_path(id_chain, name)
build_archive_path(id_chain, name) == PathPush(PushAll(EmptyPath, id_chain), name)

\* ------------------------------------------------------------------------
\* The files a run can meet: the inputs and what is embedded in them
\* ------------------------------------------------------------------------

File(f, n) == [kind |-> "file", file |-> f, name |-> n]
Dir == [kind |-> "dir", file |-> "-", name |-> Rel("-")]

\* mimetype: declared (root) or identified media type
\* sum:      deduplication checksum of the file under that media type
\* entries:  zip entries by index / mbox messages / rfc822 attachment parts
Files ==
    [ outer_zip |-> [mimetype |-> "application/zip", sum |-> "Z0",
                     entries |-> <<File("inner_zip", Rel("inner.zip")), Dir>>],
      inner_zip |-> [mimetype |-> "application/zip", sum |-> "Z1",
                     entries |-> <<File("image_jpg", Rel("image.jpg"))>>],
      image_jpg |-> [mimetype |-> "image/jpeg", sum |-> "Z2", entries |-> <<>>],
      mail_eml  |-> [mimetype |-> "message/rfc822", sum |-> "E0",
                     entries |-> <<File("evil_txt", Abs("evil.txt"))>>],
      evil_txt  |-> [mimetype |-> "text/css", sum |-> "A1", entries |-> <<>>],
      box_mbox  |-> [mimetype |-> "application/mbox", sum |-> "B0",
                     entries |-> <<File("msg_1", Rel("mbox-message.eml")),
                                   File("msg_2", Rel("mbox-message.eml"))>>],
      msg_1     |-> [mimetype |-> "message/rfc822", sum |-> "M1", entries |-> <<>>],
      msg_2     |-> [mimetype |-> "message/rfc822", sum |-> "M2", entries |-> <<>>],
      twin_mbox |-> [mimetype |-> "application/mbox", sum |-> "B1",
                     entries |-> <<File("msg_3", Rel("mbox-message.eml")),
                                   File("msg_4", Rel("mbox-message.eml"))>>],
      msg_3     |-> [mimetype |-> "message/rfc822", sum |-> "M3", entries |-> <<>>],
      msg_4     |-> [mimetype |-> "message/rfc822", sum |-> "M3", entries |-> <<>>],
      dirs_zip  |-> [mimetype |-> "application/zip", sum |-> "Z3", entries |-> <<Dir, Dir>>],
      plain_txt |-> [mimetype |-> "text/plain", sum |-> "T0", entries |-> <<>>],
      blob_bin  |-> [mimetype |-> "application/x-blob", sum |-> "X0", entries |-> <<>>] ]

Node == DOMAIN Files

\* the files given to the program as --input
Roots == {"outer_zip", "mail_eml", "box_mbox", "twin_mbox", "dirs_zip", "plain_txt",
          "blob_bin"}

\* the inputs that hold embedded files
Containers == {"outer_zip", "mail_eml", "box_mbox"}

\* the file an embedded file was found in
Parent(n) ==
    CHOOSE p \in Node : \E i \in DOMAIN Files[p].entries :
        Files[p].entries[i].kind = "file" /\ Files[p].entries[i].file = n

IsEmbedded(n) ==
    \E p \in Node : \E i \in DOMAIN Files[p].entries :
        Files[p].entries[i].kind = "file" /\ Files[p].entries[i].file = n

\* checksums of the files on the embedding path below the root, down to n
RECURSIVE ChainOf(_)
ChainOf(n) == IF IsEmbedded(n) THEN Append(ChainOf(Parent(n)), Files[n].sum) ELSE <<>>

\* ------------------------------------------------------------------------
\* ProcessType and the dispatch table
\* ------------------------------------------------------------------------

\* ProcessType::all()
Kinds == <<"Text", "Metadata", "Pdf", "Embedded">>
Kind == {Kinds[i] : i \in DOMAIN Kinds}

\* the values of --input and --types exercised by the model
Inputs ==
    (Containers \X {<<"Embedded">>, <<"Text", "Embedded">>})
        \cup ({"mail_eml"} \X {<<"Metadata", "Embedded">>, <<"Text", "Metadata", "Pdf">>})
        \cup ({"twin_mbox"} \X {<<"Text", "Embedded">>})
        \cup ({"dirs_zip"} \X {<<"Embedded">>, <<"Text", "Embedded">>})
        \cup ({"plain_txt", "blob_bin"} \X {<<"Text">>})

\* Vec::contains
Contains(types, k) == \E i \in DOMAIN types : types[i] = k

text_processor(mimetype) ==
    mimetype \notin {"text/plain ", "text/css", "text/csv", "text/javascript",
                     "application/zip", "application/mbox"}

metadata_processor(mimetype) == TRUE

pdf_processor(mimetype) == mimetype = "message/rfc822"

embedded_processor(mimetype) ==
    mimetype \in {"application/zip", "application/mbox", "message/rfc822"}

Resolves(k, mimetype) ==
    CASE k = "Text" -> text_processor(mimetype)
      [] k = "Metadata" -> metadata_processor(mimetype)
      [] k = "Pdf" -> pdf_processor(mimetype)
      [] k = "Embedded" -> embedded_processor(mimetype)

\* strategies pushed in the order of the request, once per occurrence
determine_processors_as_requested(mimetype, types) ==
    SelectSeq(types, LAMBDA k : Resolves(k, mimetype))

\* determine_processors: the strategies to launch, in the order of the four ifs
determine_processors(mimetype, types) ==
    SelectSeq(Kinds, LAMBDA k : Contains(types, k) /\ Resolves(k, mimetype))

Range(seq) == {seq[i] : i \in DOMAIN seq}

\* ------------------------------------------------------------------------
\* State
\* ------------------------------------------------------------------------

VARIABLES
    root,        \* --input
    types,       \* --types
    recurse,     \* the recurse argument of process
    ctx,         \* per file: the engine call on it and its ProcessContext
    strat,       \* per file and kind: the strategy future of the engine call
    pos,         \* per file: next entry of the Embedded strategy (0: not opened)
    outputs,     \* buffer of the output channel
    senders,     \* live Sender handles of the output channel
    outClosed,   \* the Receiver of the output channel was dropped
    pump,        \* position of handle_outputs
    jobs,        \* job queue of the worker pool
    worker,      \* per pool thread: position in handle_process_output
    entries,     \* buffer of the archive-entry channel
    arcSenders,  \* live Sender handles of the archive-entry channel
    arcClosed,   \* the Receiver of the archive-entry channel was dropped
    archive,     \* build_archive: position, entries pushed
    main,        \* position of process: which task it awaits
    exited,      \* main returned
    sent,        \* history: strategies that put an error item into the channel
    received,    \* history: artifacts handle_outputs took off the channel
    forwarded,   \* history: entries sent to the archive-entry channel
    panics,      \* history: artifacts whose worker panicked on a closed channel
    dedupe,      \* the checksum computations of identify/src/deduplication.rs
    processors,  \* the calls of determine_processors that are followed
    render,      \* a run of Rfc822PdfProcessor::process followed step by step
    identify,    \* a call of identify_mimetype
    formatter,   \* a call of MessageFormatter::format_addresses
    batcher      \* a ProcessOutputBatcher and the stream it submits to

vars == <<root, types, recurse, ctx, strat, pos, outputs, senders, outClosed,
          pump, jobs, worker, entries, arcSenders, arcClosed, archive, main,
          exited, sent, received, forwarded, panics, dedupe, processors,
          render, identify, formatter, batcher>>

inputs == <<root, types, recurse>>
engine == <<ctx, strat, pos>>
outChan == <<outputs, senders, outClosed>>
arcChan == <<entries, arcSenders, arcClosed>>
history == <<sent, received, forwarded, panics>>

\* everything the harness and the engine work on
pipeline == <<root, types, recurse, ctx, strat, pos, outputs, senders, outClosed,
              pump, jobs, worker, entries, arcSenders, arcClosed, archive, main,
              exited, sent, received, forwarded, panics>>

\* what is followed on its own, outside a run of the harness
units == <<dedupe, processors, render, identify, formatter, batcher>>

\* a pool with one thread more than OUTPUT_HANDLING_THREADS
Workers_more == 1..(PoolSize + 1)

\* threadpool::ThreadPool::new(OUTPUT_HANDLING_THREADS)
Workers == 1..PoolSize

\* a temporary file: the file it holds and the strategy kind that made it
Temp(n, k) == [of |-> n, kind |-> k]

\* ProcessOutputData together with the ProcessState of the variant
Item(tag, chain, name, path, mimetype, tys, checksum) ==
    [tag |-> tag, state |-> chain, name |-> name, path |-> path,
     mimetype |-> mimetype, types |-> tys, checksum |-> checksum]

\* Err(e) on the channel; path names the strategy that reported it
ErrItem(n, k) == Item("Err", <<>>, Rel("-"), Temp(n, k), "-", <<>>, "-")

NoItem == Item("None", <<>>, Rel("-"), Temp("-", "-"), "-", <<>>, "-")

NoEntry == [path |-> Temp("-", "-"), zip_path |-> EmptyPath]

NoCtx == [status |-> "none", mimetype |-> "-", types |-> <<>>, id_chain |-> <<>>]

\* ProcessContextBuilder::new(mimetype, types, sink).id_chain(chain).build(),
\* handed to Processor::process
NewCtx(mimetype, tys, chain) ==
    [status |-> "spawned", mimetype |-> mimetype, types |-> tys, id_chain |-> chain]

\* a Processed artifact that takes the media type of its input
processed_as_input(c, n, k, name, mimetype) ==
    Item("Processed", c.id_chain, Rel(name), Temp(n, k), c.mimetype, c.types, Files[n].sum)

\* ProcessOutput::processed(ctx, name, path, mimetype, checksum)
processed(c, n, k, name, mimetype) ==
    Item("Processed", c.id_chain, Rel(name), Temp(n, k), mimetype, c.types, Files[n].sum)

\* ProcessOutput::embedded with ProcessType::all() in place of ctx.types
embedded_all(c, e, mimetype) ==
    Item("Embedded", c.id_chain, e.name, Temp(e.file, "Embedded"), mimetype,
         Kinds, Files[e.file].sum)

\* ProcessOutput::embedded(ctx, name, path, mimetype, checksum)
embedded(c, e, mimetype) ==
    Item("Embedded", c.id_chain, e.name, Temp(e.file, "Embedded"), mimetype,
         c.types, Files[e.file].sum)

\* no checksum computation is followed
NoDedupe == [run |-> <<>>]

\* process(input_path, output_path, mimetype, types, recurse) up to the spawn
\* of its three tasks, for the inputs ins and the values recs of recurse
Start(ins, recs) ==
    /\ \E in \in ins : root = in[1] /\ types = in[2]
    /\ recurse \in recs
    /\ ctx = [n \in Node |-> IF n = root THEN NewCtx(Files[n].mimetype, types, <<>>)
                                        ELSE NoCtx]
    /\ strat = [n \in Node |-> [k \in Kind |-> "absent"]]
    /\ pos = [n \in Node |-> 0]
    /\ outputs = <<>>
    /\ senders = 1
    /\ outClosed = FALSE
    /\ pump = "recv"
    /\ jobs = <<>>
    /\ worker = [w \in Workers |-> [pc |-> "idle", output |-> NoItem,
                                     id_chain |-> <<>>, entry |-> NoEntry]]
    /\ entries = <<>>
    /\ arcSenders = 1
    /\ arcClosed = FALSE
    /\ archive = [pc |-> "create", pushed |-> <<>>]
    /\ main = "processing"
    /\ exited = FALSE
    /\ sent = {}
    /\ received = {}
    /\ forwarded = <<>>
    /\ panics = {}

\* no call of determine_processors is followed on its own
NoProcessors == [mimetype |-> "-", types |-> <<>>, ret |-> <<>>]

NoRender == [pc |-> "-"]
NoIdentify == [pc |-> "-"]
NoFormatter == [pc |-> "-"]
NoBatcher == [pc |-> "-"]

\* none of the functions of the pdf strategy, the identifier, the formatter
\* and the batcher is followed on its own
Unfollowed ==
    /\ render = NoRender
    /\ identify = NoIdentify
    /\ formatter = NoFormatter
    /\ batcher = NoBatcher

Init == Start(Inputs, BOOLEAN) /\ dedupe = NoDedupe /\ processors = NoProcessors /\ Unfollowed

\* ------------------------------------------------------------------------
\* Processor::process: the engine call on file n
\* ------------------------------------------------------------------------

Running(row) == {k \in Kind : row[k] = "run"}
Failed(row) == \E k \in Kind : row[k] = "err"

\* try_join_all(futures): Err as soon as one future returned Err, Ok when all
\* returned Ok
Result(row) ==
    IF Failed(row) THEN "err" ELSE IF Running(row) = {} THEN "ok" ELSE "running"

\* try_join_all drops the futures still pending when it returns Err
JoinRow(row) ==
    IF Failed(row) THEN [k \in Kind |-> IF row[k] = "run" THEN "dropped" ELSE row[k]]
    ELSE row

\* Release with a root ctx that outlives the root engine call
Release_kept(n) == IF n = root THEN 0 ELSE 2

\* Sender handles dropped when the engine call on n returns: its ctx and, for
\* a recursive call, the output_sink bound by the Embedded match arm
Release(n) == IF n = root THEN 1 ELSE 2

\* the (TempPath, PathBuf) pair the Embedded arm evaluates to
EmbeddedEntry(w) ==
    [path |-> worker[w].output.path,
     zip_path |-> build_archive_path(worker[w].id_chain, worker[w].output.name)]

\* an engine call whose pool thread goes on while the strategies still run
Return_early(n, res, s) ==
    /\ ctx' = [ctx EXCEPT ![n].status = res]
    /\ senders' = IF res = "running" THEN s ELSE s - Release(n)
    /\ worker' = [w \in Workers |->
          IF worker[w].pc = "recurse" /\ worker[w].output.path.of = n
          THEN [worker[w] EXCEPT !.pc = "send", !.entry = EmbeddedEntry(w)]
          ELSE worker[w]]

\* Processor::process on n returns res (or is still "running"); s: the live
\* Sender handles before the return
Return(n, res, s) ==
    /\ ctx' = [ctx EXCEPT ![n].status = res]
    /\ senders' = IF res = "running" THEN s ELSE s - Release(n)
    /\ worker' = [w \in Workers |->
          IF res # "running" /\ worker[w].pc = "recurse" /\ worker[w].output.path.of = n
          THEN [worker[w] EXCEPT !.pc = "send", !.entry = EmbeddedEntry(w)]
          ELSE worker[w]]

\* a strategy of n made a step that left the futures in row
Join(n, row, s) ==
    /\ strat' = [strat EXCEPT ![n] = JoinRow(row)]
    /\ Return(n, Result(row),
              s - (IF Failed(row) THEN Cardinality(Running(row)) ELSE 0))

\* checksum, determine_processors, temp_path and the launch of the strategies
EngineBegin(n) ==
    /\ ~exited
    /\ ctx[n].status = "spawned"
    /\ \/ \* dedupe_checksum_from_path or temp_path failed: no strategy ran
          /\ Return(n, "err", senders)
          /\ UNCHANGED strat
       \/ /\ LET ps == Range(determine_processors(ctx[n].mimetype, ctx[n].types))
             IN Join(n, [k \in Kind |-> IF k \in ps THEN "run" ELSE "absent"],
                     senders + Cardinality(ps))
    /\ UNCHANGED <<units, inputs, pos, outputs, outClosed, pump, jobs, arcChan, archive,
                   main, exited, history>>

\* Sender::send waits for room and fails once the Receiver is gone
CanSend == outClosed \/ Len(outputs) < OutCap

\* an Embedded artifact built without a clone of the Sender
Held_none(item) == 0

\* Sender handles an artifact carries: ProcessOutput::embedded stores
\* ctx.output_sink.clone() in the Embedded variant
Held(item) == IF item.tag = "Embedded" THEN 1 ELSE 0

\* a send whose error is not returned
map_err_ok(closed, st) == st

\* self.output_sink.send(result).await.map_err(..): Err once the Receiver is
\* gone, and the caller's ? returns it
map_err(closed, st) == IF closed THEN "err" ELSE st

\* ctx.add_output(item) by strategy k of n, which is left in status st
add_output(n, k, item, st) ==
    /\ CanSend
    /\ outputs' = IF outClosed THEN outputs ELSE Append(outputs, item)
    /\ sent' = IF ~outClosed /\ item.tag = "Err" THEN sent \cup {item.path} ELSE sent
    /\ LET now == map_err(outClosed, st)
           held == IF outClosed THEN 0 ELSE Held(item)
       IN Join(n, [strat[n] EXCEPT ![k] = now],
               senders + held - (IF now = "run" THEN 0 ELSE 1))

\* DefaultTextProcessor::process
TextProcess(n) ==
    /\ ~exited
    /\ strat[n]["Text"] = "run"
    /\ \/ \* text_into_file failed: the ? returns the error, nothing is sent
          /\ Join(n, [strat[n] EXCEPT !["Text"] = "err"], senders - 1)
          /\ UNCHANGED <<outputs, sent>>
       \/ /\ add_output(n, "Text",
                        processed(ctx[n], n, "Text", "extracted.txt", "text/plain"), "ok")
    /\ UNCHANGED <<units, inputs, pos, outClosed, pump, jobs, arcChan, archive, main,
                   exited, received, forwarded, panics>>

\* a strategy that wraps its work in a result and sends the result
ResultProcess(n, k, name, mimetype) ==
    /\ ~exited
    /\ strat[n][k] = "run"
    /\ \/ \* the work failed: the Err is what is sent
          /\ add_output(n, k, ErrItem(n, k), "reported")
       \/ /\ add_output(n, k, processed(ctx[n], n, k, name, mimetype), "ok")
    /\ UNCHANGED <<units, inputs, pos, outClosed, pump, jobs, arcChan, archive, main,
                   exited, received, forwarded, panics>>

\* DefaultMetadataProcessor::process
MetadataProcess(n) == ResultProcess(n, "Metadata", "metadata.json", "application/json")

\* Rfc822PdfProcessor::process
PdfProcess(n) == ResultProcess(n, "Pdf", "rendered.pdf", "application/pdf")

\* the Embedded strategies open or parse their input before they iterate
EmbeddedOpen(n) ==
    /\ ~exited
    /\ strat[n]["Embedded"] = "run"
    /\ pos[n] = 0
    /\ \/ \* the file cannot be opened or parsed: the ? returns the error
          /\ Join(n, [strat[n] EXCEPT !["Embedded"] = "err"], senders - 1)
          /\ UNCHANGED pos
       \/ /\ pos' = [pos EXCEPT ![n] = 1]
          /\ IF Files[n].entries = <<>>
             THEN Join(n, [strat[n] EXCEPT !["Embedded"] = "ok"], senders - 1)
             ELSE Join(n, strat[n], senders)
    /\ UNCHANGED <<units, inputs, outputs, outClosed, pump, jobs, arcChan, archive, main,
                   exited, history>>

\* media type the Embedded strategy of a file of type mimetype gives an entry
EntryMimetype(mimetype, e) ==
    IF mimetype = "application/mbox" THEN "message/rfc822" ELSE Files[e.file].mimetype

\* the entries taken from the last to the first
by_index_rev(n, i) == Files[n].entries[Len(Files[n].entries) + 1 - i]

\* archive.by_index(i), the i-th message of the MessageIterator, the i-th of
\* message.attachments
by_index(n, i) == Files[n].entries[i]

\* a directory entry reported as an entry that cannot be read
next_archive_entry_nodir(n, e) ==
    IF e.kind = "dir" THEN {ErrItem(n, "Entry")}
    ELSE {ErrItem(n, "Entry"), embedded(ctx[n], e, EntryMimetype(ctx[n].mimetype, e))}

\* what next_archive_entry, process_message or process_part can make of entry
\* e of n: nothing to send for a directory; for a file its Embedded artifact,
\* or an Err when it cannot be read, spooled, identified or summed
next_archive_entry(n, e) ==
    IF e.kind = "dir" THEN {NoItem}
    ELSE {ErrItem(n, "Entry"), embedded(ctx[n], e, EntryMimetype(ctx[n].mimetype, e))}

\* a loop that returns the error of an entry after sending it
next_iteration_abort(n, item) ==
    IF item.tag = "Err" THEN "err"
    ELSE IF pos[n] = Len(Files[n].entries) THEN "ok" ELSE "run"

\* the loop after the entry at pos[n]: the next entry, or Ok(()) past the last
next_iteration(n, item) == IF pos[n] = Len(Files[n].entries) THEN "ok" ELSE "run"

\* one iteration of the loop of Mbox-, Zip- or Rfc822EmbeddedProcessor::process
EmbeddedNext(n) ==
    /\ ~exited
    /\ strat[n]["Embedded"] = "run"
    /\ pos[n] \in DOMAIN Files[n].entries
    /\ \E item \in next_archive_entry(n, by_index(n, pos[n])) :
          LET st == next_iteration(n, item)
          IN IF item = NoItem
             THEN \* Ok(NextArchiveEntry::Dir(name)) => debug!(..)
                  /\ Join(n, [strat[n] EXCEPT !["Embedded"] = st],
                          senders - (IF st = "run" THEN 0 ELSE 1))
                  /\ UNCHANGED <<outputs, sent>>
             ELSE add_output(n, "Embedded", item, st)
    /\ pos' = [pos EXCEPT ![n] = pos[n] + 1]
    /\ UNCHANGED <<units, inputs, outClosed, pump, jobs, arcChan, archive, main, exited,
                   received, forwarded, panics>>

\* ------------------------------------------------------------------------
\* handle_outputs and the worker pool
\* ------------------------------------------------------------------------

Idle(w) == worker[w].pc = "idle"

\* ThreadPool::execute: the job is queued, the caller does not wait
execute(job) == Append(jobs, job)

\* if let Ok(output) = output, taken for every item
IsOk_any(output) == TRUE

\* if let Ok(output) = output.tap(log_err!(..)): an Err is logged and dropped
IsOk(output) == output.tag # "Err"

\* outputs.recv() returned Some(output)
PumpRecv ==
    /\ ~exited
    /\ pump = "recv"
    /\ outputs # <<>>
    /\ outputs' = Tail(outputs)
    /\ IF IsOk(Head(outputs))
       THEN /\ jobs' = execute(Head(outputs))
            /\ arcSenders' = arcSenders + 1
            /\ received' = received \cup {Head(outputs)}
       ELSE UNCHANGED <<jobs, arcSenders, received>>
    /\ UNCHANGED <<units, inputs, engine, senders, outClosed, pump, worker, entries,
                   arcClosed, archive, main, exited, sent, forwarded, panics>>

\* outputs.recv() returned None: every Sender is dropped and the buffer is empty
PumpClosed ==
    /\ ~exited
    /\ pump = "recv"
    /\ outputs = <<>>
    /\ senders = 0
    /\ pump' = "join"
    /\ UNCHANGED <<units, inputs, engine, outChan, jobs, worker, arcChan, archive, main,
                   exited, history>>

\* a join that does not wait for the pool
join_nowait == TRUE

\* worker_pool.join(): returns when no job is queued and no thread runs one
join == jobs = <<>> /\ \A w \in Workers : Idle(w)

\* worker_pool.join() returned; handle_outputs returns and drops its channel ends
PumpJoin ==
    /\ ~exited
    /\ pump = "join"
    /\ join
    /\ pump' = "done"
    /\ outClosed' = TRUE
    /\ arcSenders' = arcSenders - 1
    /\ UNCHANGED <<units, inputs, engine, outputs, senders, jobs, worker, entries,
                   arcClosed, archive, main, exited, history>>

\* id_chain.insert(0, data.checksum)
push_front(id_chain, checksum) == <<checksum>> \o id_chain

\* id_chain.push(data.checksum)
push(id_chain, checksum) == Append(id_chain, checksum)

\* an Embedded arm that recurses whatever the recurse argument
if_recurse_always(output) == TRUE

\* if recurse { .. } in the Embedded arm
if_recurse(output) == recurse

\* a pool thread takes the next job and runs handle_process_output up to its
\* first suspension
WorkerTake(w) ==
    /\ ~exited
    /\ Idle(w)
    /\ \A v \in Workers : v < w => ~Idle(v)
    /\ jobs # <<>>
    /\ jobs' = Tail(jobs)
    /\ LET output == Head(jobs)
           id_chain == push(output.state, output.checksum)
       IN IF output.tag = "Processed"
          THEN /\ worker' = [worker EXCEPT ![w] =
                    [pc |-> "send", output |-> output, id_chain |-> output.state,
                     entry |-> [path |-> output.path,
                                zip_path |-> build_archive_path(output.state, output.name)]]]
               /\ UNCHANGED <<ctx, senders>>
          ELSE IF if_recurse(output)
          THEN /\ worker' = [worker EXCEPT ![w] =
                    [pc |-> "recurse", output |-> output, id_chain |-> id_chain,
                     entry |-> NoEntry]]
               /\ ctx' = [ctx EXCEPT ![output.path.of] =
                    NewCtx(output.mimetype, output.types, id_chain)]
               /\ senders' = senders + 1
          ELSE /\ worker' = [worker EXCEPT ![w] =
                    [pc |-> "send", output |-> output, id_chain |-> id_chain,
                     entry |-> [path |-> output.path,
                                zip_path |-> build_archive_path(id_chain, output.name)]]]
               /\ senders' = senders - 1
               /\ UNCHANGED ctx
    /\ UNCHANGED <<units, inputs, strat, pos, outputs, outClosed, pump, arcChan, archive,
                   main, exited, history>>

\* archive_entry_sink.send(archive_entry).await.unwrap()
WorkerSend(w) ==
    /\ ~exited
    /\ worker[w].pc = "send"
    /\ arcClosed \/ Len(entries) < ArcCap
    /\ IF arcClosed
       THEN /\ panics' = panics \cup {worker[w].entry.path}
            /\ UNCHANGED <<entries, forwarded>>
       ELSE /\ entries' = Append(entries, worker[w].entry)
            /\ forwarded' = Append(forwarded, worker[w].entry)
            /\ UNCHANGED panics
    /\ arcSenders' = arcSenders - 1
    /\ worker' = [worker EXCEPT ![w] =
          [pc |-> "idle", output |-> NoItem, id_chain |-> <<>>, entry |-> NoEntry]]
    /\ UNCHANGED <<units, inputs, engine, outChan, pump, jobs, arcClosed, archive, main,
                   exited, sent, received>>

\* ------------------------------------------------------------------------
\* build_archive
\* ------------------------------------------------------------------------

\* build_archive returns Err and its Receiver stays alive
ArchiveFail_open ==
    /\ archive' = [archive EXCEPT !.pc = "err"]
    /\ UNCHANGED <<entries, arcClosed>>

\* an I/O error makes build_archive return Err: its Receiver is dropped with
\* what it still buffers
ArchiveFail ==
    /\ archive' = [archive EXCEPT !.pc = "err"]
    /\ arcClosed' = TRUE
    /\ entries' = <<>>

\* std::fs::File::create(output_path)
ArchiveCreate ==
    /\ ~exited
    /\ archive.pc = "create"
    /\ \/ ArchiveFail
       \/ /\ archive' = [archive EXCEPT !.pc = "recv"]
          /\ UNCHANGED <<entries, arcClosed>>
    /\ UNCHANGED <<units, inputs, engine, outChan, pump, jobs, worker, arcSenders, main,
                   exited, history>>

\* entries.recv() returned Some: archive_builder.push(path, zip_path)
ArchivePush ==
    /\ ~exited
    /\ archive.pc = "recv"
    /\ entries # <<>>
    /\ \/ ArchiveFail
       \/ /\ archive' = [archive EXCEPT !.pushed = Append(@, Head(entries))]
          /\ entries' = Tail(entries)
          /\ UNCHANGED arcClosed
    /\ UNCHANGED <<units, inputs, engine, outChan, pump, jobs, worker, arcSenders, main,
                   exited, history>>

\* entries.recv() returned None: archive_builder.build()
ArchiveBuild ==
    /\ ~exited
    /\ archive.pc = "recv"
    /\ entries = <<>>
    /\ arcSenders = 0
    /\ \/ ArchiveFail
       \/ /\ archive' = [archive EXCEPT !.pc = "ok"]
          /\ arcClosed' = TRUE
          /\ UNCHANGED entries
    /\ UNCHANGED <<units, inputs, engine, outChan, pump, jobs, worker, arcSenders, main,
                   exited, history>>

\* ------------------------------------------------------------------------
\* process and main
\* ------------------------------------------------------------------------

\* processing.await?.map_err(..)?
AwaitProcessing ==
    /\ ~exited
    /\ main = "processing"
    /\ ctx[root].status \in {"ok", "err"}
    /\ main' = IF ctx[root].status = "ok" THEN "output_handling" ELSE "err"
    /\ UNCHANGED <<units, inputs, engine, outChan, pump, jobs, worker, arcChan, archive,
                   exited, history>>

\* output_handling.await?
AwaitOutputHandling ==
    /\ ~exited
    /\ main = "output_handling"
    /\ pump = "done"
    /\ main' = "archive"
    /\ UNCHANGED <<units, inputs, engine, outChan, pump, jobs, worker, arcChan, archive,
                   exited, history>>

\* archive.await??
AwaitArchive ==
    /\ ~exited
    /\ main = "archive"
    /\ archive.pc \in {"ok", "err"}
    /\ main' = archive.pc
    /\ UNCHANGED <<units, inputs, engine, outChan, pump, jobs, worker, arcChan, archive,
                   exited, history>>

\* process returned to main, main returns and the program ends
Exit ==
    /\ ~exited
    /\ main \in {"ok", "err"}
    /\ exited' = TRUE
    /\ UNCHANGED <<units, inputs, engine, outChan, pump, jobs, worker, arcChan, archive,
                   main, history>>

Next ==
    \/ \E n \in Node : EngineBegin(n)
    \/ \E n \in Node : TextProcess(n)
    \/ \E n \in Node : MetadataProcess(n)
    \/ \E n \in Node : PdfProcess(n)
    \/ \E n \in Node : EmbeddedOpen(n)
    \/ \E n \in Node : EmbeddedNext(n)
    \/ PumpRecv
    \/ PumpClosed
    \/ PumpJoin
    \/ \E w \in Workers : WorkerTake(w)
    \/ \E w \in Workers : WorkerSend(w)
    \/ ArchiveCreate
    \/ ArchivePush
    \/ ArchiveBuild
    \/ AwaitProcessing
    \/ AwaitOutputHandling
    \/ AwaitArchive
    \/ Exit

Spec == Init /\ [][Next]_vars

\* The runtimes run every task and pool thread that can make a step, and the
\* archive writer keeps taking entries off its channel
Fairness ==
    /\ \A n \in Node :
          WF_vars(EngineBegin(n) \/ TextProcess(n) \/ MetadataProcess(n)
                    \/ PdfProcess(n) \/ EmbeddedOpen(n) \/ EmbeddedNext(n))
    /\ WF_vars(PumpRecv \/ PumpClosed \/ PumpJoin)
    /\ \A w \in Workers : WF_vars(WorkerTake(w) \/ WorkerSend(w))
    /\ WF_vars(ArchiveCreate \/ ArchivePush \/ ArchiveBuild)
    /\ WF_vars(AwaitProcessing \/ AwaitOutputHandling \/ AwaitArchive \/ Exit)

FairSpec == Spec /\ Fairness

\* ------------------------------------------------------------------------
\* identify/src/deduplication.rs: the checksum of one payload, computed from
\* its path and from a reader over the same bytes
\* ------------------------------------------------------------------------

\* length of the read buffer (Box::new([0; MB as usize]) in the code)
BufLen == 2

\* longest payload
MaxLen == 3

\* longest Message-ID
MaxId == 4

\* the values of a payload byte; 0 is what the fresh buffer holds
Byte == {1, 2}

\* stands for the bytes that delimit the value of the Message-ID header
Marker == 3

\* media types handed to dedupe_checksum
Mimetypes == {"application/zip", "text/css", "message/rfc822"}

Payloads == UNION {[1..n -> Byte] : n \in 0..MaxLen}

Ids == UNION {[1..n -> Byte] : n \in 1..MaxId}

\* what follows the Message-ID header: other headers and the body
Bodies == {<<>>, <<1>>}

\* the bytes of a message with Message-ID id
Message(id, body) == <<Marker>> \o id \o <<Marker>> \o body

Messages == {Message(id, body) : id \in Ids, body \in Bodies}

\* the two entry points: dedupe_checksum_from_path and dedupe_checksum
Readers == {"from_path", "reader"}

Min(a, b) == IF a < b THEN a ELSE b

\* content.read(buf) returned n: the first n bytes of buf are overwritten, the
\* rest keeps what it held
read(buf, content, n) ==
    [i \in 1..BufLen |-> IF i <= n THEN content[i] ELSE buf[i]]

\* ctx.consume(buf.deref()): the digest is fed the whole buffer
consume(md5, buf, n) == md5 \o buf

\* format!("{:x}", ctx.compute()): MD5 is taken to be free of collisions, so
\* the checksum stands for the byte sequence the digest was fed
compute(md5) == [md5_of |-> md5]

\* position of the byte that closes the Message-ID value, 0 if there is none
IdEnd(buf) ==
    IF Len(buf) >= 2 /\ buf[1] = Marker /\ \E j \in 2..Len(buf) : buf[j] = Marker
    THEN CHOOSE j \in 2..Len(buf) :
            buf[j] = Marker /\ \A i \in 2..(j - 1) : buf[i] # Marker
    ELSE 0

\* MessageParser::default().parse(&buf).and_then(|msg| msg.message_id()):
\* nothing for an empty input, which does not parse, and for a message
\* without the header
message_id(buf) ==
    IF buf = <<>> \/ IdEnd(buf) = 0 THEN <<>>
    ELSE <<SubSeq(buf, 2, IdEnd(buf) - 1)>>

\* a fallback that is not the payload
unwrap_or_id(raw_id, buf) == IF raw_id = <<>> THEN <<Marker>> ELSE raw_id[1]

\* raw_id.map(Cursor::new).unwrap_or(Cursor::new(buf))
unwrap_or(raw_id, buf) == IF raw_id = <<>> THEN buf ELSE raw_id[1]

\* the match on the media type
dispatch(mimetype) == IF mimetype = "message/rfc822" THEN "read_to_end" ELSE "read"

\* a call of dedupe_checksum_from_path or dedupe_checksum at its match; cursor
\* tells that content is a Cursor, which fills the buffer on every read
NewRun(payload, mimetype) ==
    [payload |-> payload, mimetype |-> mimetype, pc |-> dispatch(mimetype),
     content |-> payload, cursor |-> FALSE, buf |-> [i \in 1..BufLen |-> 0],
     ctx |-> <<>>, checksum |-> compute(<<>>), origin |-> "reader"]

\* dedupe_checksum(&mut Cursor::new(contents), mimetype) as process_message
\* and process_part call it
CursorRun(payload, mimetype) ==
    [NewRun(payload, mimetype) EXCEPT !.cursor = TRUE, !.origin = "cursor"]

\* the pairs of calls that are followed: the same bytes under the same media
\* type, the same bytes under message/rfc822 and under another media type,
\* two messages that each have a Message-ID, and the engine's call on the
\* file of an embedded artifact with the strategy's call on its contents
Calls2 ==
    {<<NewRun(q, m), NewRun(q, m)>> : q \in Payloads, m \in Mimetypes}
        \cup {<<NewRun(q, m), CursorRun(q, m)>> : q \in Payloads, m \in Mimetypes}
        \cup {<<NewRun(q, "message/rfc822"), NewRun(q, m)>> :
                 q \in Payloads, m \in Mimetypes}
        \cup {<<NewRun(q1, "message/rfc822"), NewRun(q2, "message/rfc822")>> :
                 q1 \in Messages, q2 \in Messages}

\* dedupe_checksum_from_path(path, mimetype) and dedupe_checksum(content,
\* mimetype), each on its own input
DedupeInit ==
    /\ Start({<<"outer_zip", <<"Embedded">>>>}, {FALSE})
    /\ processors = NoProcessors
    /\ Unfollowed
    /\ \E c \in Calls2 :
          dedupe = [run |-> [r \in Readers |-> IF r = "from_path" THEN c[1] ELSE c[2]]]

\* dedupe_message up to its call of dedupe_md5: read_to_end, parse, and the
\* Cursor over the Message-ID or over the whole payload
DedupeMessage(r) ==
    /\ dedupe.run # <<>>
    /\ dedupe.run[r].pc = "read_to_end"
    /\ LET run == dedupe.run[r]
       IN dedupe' = [dedupe EXCEPT !.run[r] =
             [run EXCEPT !.pc = "read", !.cursor = TRUE,
                         !.content = unwrap_or(message_id(run.content), run.content)]]
    /\ UNCHANGED <<pipeline, processors, render, identify, formatter, batcher>>

\* the lengths content.read(buf) can return
ReadLens(run) ==
    IF run.cursor THEN {Min(BufLen, Len(run.content))}
    ELSE 1..Min(BufLen, Len(run.content))

\* one iteration of while content.read(buf).await? > 0 { ctx.consume(buf) }
DedupeRead(r) ==
    /\ dedupe.run # <<>>
    /\ dedupe.run[r].pc = "read"
    /\ dedupe.run[r].content # <<>>
    /\ \E n \in ReadLens(dedupe.run[r]) :
          LET run == dedupe.run[r]
              buf == read(run.buf, run.content, n)
          IN dedupe' = [dedupe EXCEPT !.run[r] =
                [run EXCEPT !.buf = buf,
                            !.content = SubSeq(run.content, n + 1, Len(run.content)),
                            !.ctx = consume(run.ctx, buf, n)]]
    /\ UNCHANGED <<pipeline, processors, render, identify, formatter, batcher>>

\* content.read(buf) returned 0: Ok(format!("{:x}", ctx.compute()))
DedupeEnd(r) ==
    /\ dedupe.run # <<>>
    /\ dedupe.run[r].pc = "read"
    /\ dedupe.run[r].content = <<>>
    /\ dedupe' = [dedupe EXCEPT !.run[r].pc = "done",
                                !.run[r].checksum = compute(dedupe.run[r].ctx)]
    /\ UNCHANGED <<pipeline, processors, render, identify, formatter, batcher>>

\* a read of the caller's reader returned Err: the ? returns the I/O error; a
\* Cursor does not fail
DedupeFail(r) ==
    /\ dedupe.run # <<>>
    /\ dedupe.run[r].pc \in {"read", "read_to_end"}
    /\ ~dedupe.run[r].cursor
    /\ dedupe' = [dedupe EXCEPT !.run[r].pc = "err"]
    /\ UNCHANGED <<pipeline, processors, render, identify, formatter, batcher>>

DedupeNext ==
    \/ \E r \in Readers : DedupeMessage(r)
    \/ \E r \in Readers : DedupeRead(r)
    \/ \E r \in Readers : DedupeEnd(r)
    \/ \E r \in Readers : DedupeFail(r)

DedupeSpec == DedupeInit /\ [][DedupeNext]_vars

\* ------------------------------------------------------------------------
\* Processor::determine_processors on its own: one media type and one request,
\* dispatched twice
\* ------------------------------------------------------------------------

\* longest request
MaxTypes == 3

\* media types handed to determine_processors
DispatchTypes ==
    {"text/plain", "text/css", "text/csv", "text/javascript", "application/zip",
     "application/mbox", "message/rfc822", "application/pdf", "image/jpeg"}

\* the values of types: any order, any multiplicity
Requests == UNION {[1..n -> Kind] : n \in 0..MaxTypes}

\* the two calls
Twice == {"first", "second"}

DispatchInit ==
    /\ Start({<<"outer_zip", <<"Embedded">>>>}, {FALSE})
    /\ dedupe = NoDedupe
    /\ Unfollowed
    /\ \E m \in DispatchTypes, t \in Requests :
          processors = [mimetype |-> m, types |-> t,
                        ret |-> [c \in Twice |-> [done |-> FALSE, list |-> <<>>]]]

\* self.determine_processors(&ctx.mimetype, &ctx.types) returns
Determine(c) ==
    /\ processors.ret # <<>>
    /\ ~processors.ret[c].done
    /\ processors' = [processors EXCEPT !.ret[c] =
          [done |-> TRUE,
           list |-> determine_processors(processors.mimetype, processors.types)]]
    /\ UNCHANGED <<pipeline, dedupe, render, identify, formatter, batcher>>

DispatchNext == \E c \in Twice : Determine(c)

DispatchSpec == DispatchInit /\ [][DispatchNext]_vars

\* ------------------------------------------------------------------------
\* temporal-worker, process_rusty_file: the engine call on the input with a
\* handle_outputs that copies every artifact and returns the first failure
\* ------------------------------------------------------------------------

ActivityInit ==
    /\ Start(Inputs, {FALSE})
    /\ dedupe = NoDedupe
    /\ processors = NoProcessors
    /\ Unfollowed

\* Sender handles stored in the artifacts of a sequence of items
RECURSIVE HeldIn(_)
HeldIn(items) == IF items = <<>> THEN 0 ELSE Held(Head(items)) + HeldIn(Tail(items))

\* outputs.recv() returned Some(output): an Err is logged; an artifact is
\* copied to the output directory and an Embedded one pushed to the batcher.
\* A failed copy or push is returned with ?, which drops the Receiver and
\* what it buffers
ActivityRecv ==
    /\ pump = "recv"
    /\ outputs # <<>>
    /\ received' = IF IsOk(Head(outputs)) THEN received \cup {Head(outputs)} ELSE received
    /\ \/ /\ outputs' = Tail(outputs)
          /\ senders' = senders - Held(Head(outputs))
          /\ UNCHANGED <<pump, outClosed>>
       \/ /\ IsOk(Head(outputs))
          /\ pump' = "err"
          /\ outClosed' = TRUE
          /\ outputs' = <<>>
          /\ senders' = senders - HeldIn(outputs)
    /\ UNCHANGED <<units, inputs, engine, jobs, worker, arcChan, archive,
                   main, exited, sent, forwarded, panics>>

\* outputs.recv() returned None: batcher.flush().await? and Ok(())
ActivityClosed ==
    /\ pump = "recv"
    /\ outputs = <<>>
    /\ senders = 0
    /\ pump' \in {"done", "err"}
    /\ outClosed' = TRUE
    /\ UNCHANGED <<units, inputs, engine, outputs, senders, jobs, worker,
                   arcChan, archive, main, exited, history>>

\* output_handling.await??
ActivityAwaitOutputs ==
    /\ main = "output_handling"
    /\ pump \in {"done", "err"}
    /\ main' = IF pump = "done" THEN "ok" ELSE "err"
    /\ UNCHANGED <<units, inputs, engine, outChan, pump, jobs, worker,
                   arcChan, archive, exited, history>>

ActivityNext ==
    \/ \E n \in Node : EngineBegin(n)
    \/ \E n \in Node : TextProcess(n)
    \/ \E n \in Node : MetadataProcess(n)
    \/ \E n \in Node : PdfProcess(n)
    \/ \E n \in Node : EmbeddedOpen(n)
    \/ \E n \in Node : EmbeddedNext(n)
    \/ ActivityRecv
    \/ ActivityClosed
    \/ AwaitProcessing
    \/ ActivityAwaitOutputs

ActivitySpec == ActivityInit /\ [][ActivityNext]_vars

\* ------------------------------------------------------------------------
\* Rfc822PdfProcessor::process on its own: one message, one behaviour of the
\* renderer and of the files involved
\* ------------------------------------------------------------------------

\* highest exit code of the renderer that is followed
MaxCode == 2

\* ExitStatus::code(): none when the renderer was killed by a signal
ExitCodes == {<<c>> : c \in 0..MaxCode} \cup {<<>>}

\* what the strategy meets: the input file, File::create, the transformer,
\* the spawn of the renderer, its exit status, the streaming of its pipes and
\* the write of the PDF
Envs ==
    [input : {"ok", "unreadable", "unparsable"}, create : BOOLEAN,
     transform : BOOLEAN, spawn : BOOLEAN, code : ExitCodes, io : BOOLEAN,
     write : BOOLEAN]

CommandOk == [tag |-> "Ok", exit_code |-> <<0>>]

\* CommandError: exit_code() is the code of its exit_status, if it has one
CommandErr(code) == [tag |-> "Err", exit_code |-> code]

\* stream_command: pre_exit when the spawn fails, post_exit when a pipe
\* fails, non_zero when the status is not success
stream_command(env) ==
    IF ~env.spawn THEN CommandErr(<<>>)
    ELSE IF ~env.io THEN CommandErr(env.code)
    ELSE IF env.code = <<0>> THEN CommandOk
    ELSE CommandErr(env.code)

\* a renderer whose every error is returned
render_html_to_pdf_strict(result) == result.tag

\* render_html_to_pdf: an error with exit code 1 is Ok(()), any other result
\* is returned as it is
render_html_to_pdf(result) ==
    IF result.tag = "Err" /\ result.exit_code = <<1>> THEN "Ok" ELSE result.tag

\* render_pdf: transform, render_html_to_pdf, writer.write_all
render_pdf(env) ==
    IF ~env.transform THEN "Err"
    ELSE IF render_html_to_pdf(stream_command(env)) = "Err" THEN "Err"
    ELSE IF ~env.write THEN "Err"
    ELSE "Ok"

PdfInit ==
    /\ Start({<<"mail_eml", <<"Text", "Metadata", "Pdf">>>>}, {FALSE})
    /\ dedupe = NoDedupe
    /\ processors = NoProcessors
    /\ identify = NoIdentify
    /\ formatter = NoFormatter
    /\ batcher = NoBatcher
    /\ \E env \in Envs :
          render = [pc |-> "open", env |-> env, result |-> "-", emitted |-> <<>>]

\* std::fs::read, message_parser.parse and File::create, each with ?
RenderOpen ==
    /\ render.pc = "open"
    /\ render' = IF render.env.input = "ok" /\ render.env.create
                 THEN [render EXCEPT !.pc = "render"]
                 ELSE [render EXCEPT !.pc = "send", !.result = "Err"]
    /\ UNCHANGED <<pipeline, dedupe, processors, identify, formatter, batcher>>

\* self.render_pdf(&message, &mut writer).await.map(..).context(..)
RenderPdf ==
    /\ render.pc = "render"
    /\ render' = [render EXCEPT !.pc = "send", !.result = render_pdf(render.env)]
    /\ UNCHANGED <<pipeline, dedupe, processors, identify, formatter, batcher>>

\* ctx.add_output(result).await
RenderSend ==
    /\ render.pc = "send"
    /\ render' = [render EXCEPT !.pc = "done", !.emitted =
          IF render.result = "Ok"
          THEN <<processed(ctx[root], root, "Pdf", "rendered.pdf", "application/pdf")>>
          ELSE <<ErrItem(root, "Pdf")>>]
    /\ UNCHANGED <<pipeline, dedupe, processors, identify, formatter, batcher>>

PdfNext == RenderOpen \/ RenderPdf \/ RenderSend

PdfSpec == PdfInit /\ [][PdfNext]_vars

\* ------------------------------------------------------------------------
\* identify/src/mimetype.rs: identify_mimetype on one file, for every
\* combination of answers of its three layers
\* ------------------------------------------------------------------------

\* what a layer can answer: a media type, or a hard error
Answers == {"application/octet-stream", "text/plain", "application/zip",
            "message/rfc822", "error"}

Layers == <<"xdg_mime", "tika", "file_format">>

Some(mimetype) == [tag |-> "Ok", value |-> <<mimetype>>]
None == [tag |-> "Ok", value |-> <<>>]

\* the error of a layer, with the contexts attached to it so far
LayerErr(layer) == [tag |-> "Err", error |-> layer, context |-> <<>>]

\* a first layer that rejects application/octet-stream only
identify_using_xdg_mime_any(answer) ==
    IF answer = "error" THEN LayerErr("xdg_mime")
    ELSE IF answer # "application/octet-stream" THEN Some(answer) ELSE None

\* xdg_mime().query_filetype(&path).await? and the then_some of its result
identify_using_xdg_mime(answer) ==
    IF answer = "error" THEN LayerErr("xdg_mime")
    ELSE IF answer # "application/octet-stream" /\ answer # "text/plain"
         THEN Some(answer) ELSE None

\* tika().detect(&path).await?
identify_using_tika(answer) ==
    IF answer = "error" THEN LayerErr("tika")
    ELSE IF answer # "application/octet-stream" THEN Some(answer) ELSE None

\* FileFormat::from_file(&path)?.media_type()
identify_using_file_format(answer) ==
    IF answer = "error" THEN LayerErr("file_format")
    ELSE IF answer # "application/octet-stream" THEN Some(answer) ELSE None

identify_using(layer, answer) ==
    CASE layer = "xdg_mime" -> identify_using_xdg_mime(answer)
      [] layer = "tika" -> identify_using_tika(answer)
      [] layer = "file_format" -> identify_using_file_format(answer)

\* Context::with_context on a Result: an Err gets the message, an Ok is kept
with_context(result, message) ==
    IF result.tag = "Err" THEN [result EXCEPT !.context = <<message>> \o @]
    ELSE result

IdentifyInit ==
    /\ Start({<<"outer_zip", <<"Embedded">>>>}, {FALSE})
    /\ dedupe = NoDedupe
    /\ processors = NoProcessors
    /\ render = NoRender
    /\ formatter = NoFormatter
    /\ batcher = NoBatcher
    /\ \E answers \in [{"xdg_mime", "tika", "file_format"} -> Answers] :
          identify = [pc |-> 1, answers |-> answers, consulted |-> <<>>, ret |-> None]

\* if let Some(mimetype) = identify_using_..(&path).await? { return
\* Ok(Some(mimetype)); }: the ? and the return both leave identify_mimetype
\* from inside the block, so neither value passes through with_context
IdentifyLayer ==
    /\ identify.pc \in DOMAIN Layers
    /\ LET layer == Layers[identify.pc]
           result == identify_using(layer, identify.answers[layer])
       IN identify' = [identify EXCEPT
             !.consulted = Append(@, layer),
             !.ret = result,
             !.pc = IF result = None THEN identify.pc + 1 ELSE 0]
    /\ UNCHANGED <<pipeline, dedupe, processors, render, formatter, batcher>>

\* { .. anyhow::Ok(None) }.with_context(|| format!("failed to identify MIME
\* type for '{}'", path))
IdentifyNone ==
    /\ identify.pc = Len(Layers) + 1
    /\ identify' = [identify EXCEPT !.ret = with_context(None, "path"), !.pc = 0]
    /\ UNCHANGED <<pipeline, dedupe, processors, render, formatter, batcher>>

IdentifyNext == IdentifyLayer \/ IdentifyNone

IdentifySpec == IdentifyInit /\ [][IdentifyNext]_vars

\* ------------------------------------------------------------------------
\* pdf/rfc822/message_formatter.rs: MessageFormatter on one group, that is a
\* name and a list of addresses. A string is the sequence of its characters;
\* an Option is the empty sequence or a sequence of one value
\* ------------------------------------------------------------------------

\* longest address list
MaxAddrs == 2

Absent == <<>>
Present(value) == <<value>>

\* Option<Cow<str>> of a name and of an address: when present, not empty
OptNames == {Absent, Present(<<"n">>), Present(<<"m", "e">>)}
OptAddresses == {Absent, Present(<<"a", "@", "x">>), Present(<<"b", "@", "y">>)}

\* mail_parser::Addr
Addr == [name : OptNames, address : OptAddresses]

AddrLists == UNION {[1..n -> Addr] : n \in 0..MaxAddrs}

\* a formatter that leaves the brackets off an address without a name
format_name_address_bare(name, address) ==
    CASE name # Absent /\ address # Absent ->
            Present(name[1] \o <<" ", "<">> \o address[1] \o <<">">>)
      [] name # Absent /\ address = Absent -> Present(name[1])
      [] name = Absent /\ address # Absent -> Present(address[1])
      [] name = Absent /\ address = Absent -> Absent

\* format_name_address: the match on (name, address)
format_name_address(name, address) ==
    CASE name # Absent /\ address # Absent ->
            Present(name[1] \o <<" ", "<">> \o address[1] \o <<">">>)
      [] name # Absent /\ address = Absent -> Present(name[1])
      [] name = Absent /\ address # Absent -> Present(<<"<">> \o address[1] \o <<">">>)
      [] name = Absent /\ address = Absent -> Absent

format_address(address) == format_name_address(address.name, address.address)

\* iter().filter_map(f).collect(): the values of the entries that are present
RECURSIVE filter_map(_)
filter_map(options) ==
    IF options = <<>> THEN <<>>
    ELSE Head(options) \o filter_map(Tail(options))

\* Vec<String>::join(", ")
RECURSIVE join_strings(_)
join_strings(strings) ==
    IF strings = <<>> THEN <<>>
    ELSE IF Len(strings) = 1 THEN strings[1]
    ELSE strings[1] \o <<",", " ">> \o join_strings(Tail(strings))

\* format_addresses: none for an empty list and for an empty joined string
format_addresses(addresses) ==
    IF addresses = <<>> THEN Absent
    ELSE LET value == join_strings(filter_map(
                          [i \in DOMAIN addresses |-> format_address(addresses[i])]))
         IN IF value # <<>> THEN Present(value) ELSE Absent

\* format_group
format_group(group) == format_name_address(group.name, format_addresses(group.addresses))

FormatInit ==
    /\ Start({<<"outer_zip", <<"Embedded">>>>}, {FALSE})
    /\ dedupe = NoDedupe
    /\ processors = NoProcessors
    /\ render = NoRender
    /\ identify = NoIdentify
    /\ batcher = NoBatcher
    /\ \E name \in OptNames, addresses \in AddrLists :
          formatter = [pc |-> "addresses",
                       group |-> [name |-> name, addresses |-> addresses],
                       addresses |-> Absent, ret |-> Absent]

\* self.format_addresses(&group.addresses)
FormatAddresses ==
    /\ formatter.pc = "addresses"
    /\ formatter' = [formatter EXCEPT !.pc = "group",
                        !.addresses = format_addresses(formatter.group.addresses)]
    /\ UNCHANGED <<pipeline, dedupe, processors, render, identify, batcher>>

\* format_group returns
FormatGroup ==
    /\ formatter.pc = "group"
    /\ formatter' = [formatter EXCEPT !.pc = "done", !.ret = format_group(formatter.group)]
    /\ UNCHANGED <<pipeline, dedupe, processors, render, identify, batcher>>

FormatNext == FormatAddresses \/ FormatGroup

FormatSpec == FormatInit /\ [][FormatNext]_vars

\* ------------------------------------------------------------------------
\* temporal-worker util: ProcessOutputBatcher under the calls of a caller
\* that stops at the first Err, as handle_outputs does with its ?
\* ------------------------------------------------------------------------

\* largest batch_size
MaxBatch == 3

\* most entries pushed
MaxPush == 4

\* the threshold of a batcher that flushes one entry late
batch_full_late(batch, batch_size) == Len(batch) > batch_size

\* self.batch.len() >= self.batch_size
batch_full(batch, batch_size) == Len(batch) >= batch_size

\* flush up to try_join_all: nothing to do for an empty batch, else one
\* submission per entry of the batch
flush(b, call) ==
    IF b.batch = <<>> THEN [b EXCEPT !.pc = "idle", !.last = call]
    ELSE [b EXCEPT !.pc = "flush", !.last = call, !.done = {}]

\* ProcessOutputBatcher::new(stream, batch_size)
BatcherInit ==
    /\ Start({<<"outer_zip", <<"Embedded">>>>}, {FALSE})
    /\ dedupe = NoDedupe
    /\ processors = NoProcessors
    /\ render = NoRender
    /\ identify = NoIdentify
    /\ formatter = NoFormatter
    /\ \E batch_size \in 1..MaxBatch :
          batcher = [pc |-> "idle", batch_size |-> batch_size, batch |-> <<>>,
                     done |-> {}, stream |-> <<>>, pushed |-> 0, last |-> "new"]

\* ProcessOutputBatcher::push(entry); the entries are numbered as pushed
BatcherPush ==
    /\ batcher.pc = "idle"
    /\ batcher.pushed < MaxPush
    /\ LET entry == batcher.pushed + 1
           b == [batcher EXCEPT !.batch = Append(batcher.batch, entry), !.pushed = entry]
       IN batcher' = IF batch_full(b.batch, b.batch_size) THEN flush(b, "push")
                     ELSE [b EXCEPT !.last = "push"]
    /\ UNCHANGED <<pipeline, dedupe, processors, render, identify, formatter>>

\* ProcessOutputBatcher::flush() called by the caller
BatcherFlush ==
    /\ batcher.pc = "idle"
    /\ batcher' = flush(batcher, "flush")
    /\ UNCHANGED <<pipeline, dedupe, processors, render, identify, formatter>>

\* one submission completes: conn.xadd(self.stream, "*", entry) returned Ok
BatcherXadd ==
    /\ batcher.pc = "flush"
    /\ \E i \in DOMAIN batcher.batch \ batcher.done :
          batcher' = [batcher EXCEPT !.done = batcher.done \cup {i},
                                     !.stream = Append(batcher.stream, batcher.batch[i])]
    /\ UNCHANGED <<pipeline, dedupe, processors, render, identify, formatter>>

\* a submission returned Err (no connection, or xadd failed): try_join_all
\* drops the pending ones and the ? returns the error before batch.clear()
BatcherErr ==
    /\ batcher.pc = "flush"
    /\ DOMAIN batcher.batch \ batcher.done # {}
    /\ batcher' = [batcher EXCEPT !.pc = "err"]
    /\ UNCHANGED <<pipeline, dedupe, processors, render, identify, formatter>>

\* try_join_all returned Ok: self.batch.clear(), Ok(())
BatcherClear ==
    /\ batcher.pc = "flush"
    /\ DOMAIN batcher.batch = batcher.done
    /\ batcher' = [batcher EXCEPT !.pc = "idle", !.batch = <<>>, !.done = {}]
    /\ UNCHANGED <<pipeline, dedupe, processors, render, identify, formatter>>

BatcherNext ==
    \/ BatcherPush
    \/ BatcherFlush
    \/ BatcherXadd
    \/ BatcherErr
    \/ BatcherClear

BatcherSpec == BatcherInit /\ [][BatcherNext]_vars

\* ------------------------------------------------------------------------
\* Sanity of the model
\* ------------------------------------------------------------------------

TypeOK ==
    /\ senders \in 0..20
    /\ arcSenders \in 0..20
    /\ Len(outputs) <= OutCap
    /\ Len(entries) <= ArcCap
    /\ pump \in {"recv", "join", "done", "err"}
    /\ main \in {"processing", "output_handling", "archive", "ok", "err"}
    /\ \A n \in Node : ctx[n].status \in {"none", "spawned", "running", "ok", "err"}

\* ------------------------------------------------------------------------
\* C1
\* ------------------------------------------------------------------------

\* the root engine call has returned, every Sender of the output channel is
\* dropped, handle_outputs has returned, the archive-entry channel is closed
AllDone ==
    /\ ctx[root].status \in {"ok", "err"}
    /\ senders = 0
    /\ pump = "done"
    /\ arcSenders = 0

\* some step of the program can be taken
NoDeadlock == exited \/ ENABLED Next

Busy == {w \in Workers : ~Idle(w)}

\* the archive writer has stopped consuming: its channel is full and every
\* pool thread waits in archive_entry_sink.send
Stalled ==
    /\ ~arcClosed
    /\ Len(entries) = ArcCap
    /\ \A w \in Workers : worker[w].pc = "send"

\* C2 as stated: while the archive writer does not consume, the artifacts
\* handle_outputs has received and that are not yet in the archive-entry
\* channel do not outnumber the pool threads
C2_AsStated == Stalled => Len(jobs) + Cardinality(Busy) <= PoolSize

\* ------------------------------------------------------------------------
\* C3
\* ------------------------------------------------------------------------

\* C3 as stated: when Processor::process has returned, every strategy it
\* launched has run to completion
C3_AsStated ==
    \A n \in Node : ctx[n].status \in {"ok", "err"} =>
        \A k \in Kind : strat[n][k] \notin {"run", "dropped"}

\* ------------------------------------------------------------------------
\* C4
\* ------------------------------------------------------------------------

\* C4 as stated: a strategy that failed has put an error item into the output
\* channel, and its engine call did not fail with it
C4_AsStated ==
    \A n \in Node : \A k \in Kind :
        strat[n][k] = "err" => (Temp(n, k) \in sent /\ ctx[n].status # "err")

\* ------------------------------------------------------------------------
\* C5
\* ------------------------------------------------------------------------

\* the name an embedded file has in the file that holds it
EntryName(n) ==
    LET p == Parent(n)
        i == CHOOSE j \in DOMAIN Files[p].entries :
                Files[p].entries[j].kind = "file" /\ Files[p].entries[j].file = n
    IN Files[p].entries[i].name

DerivedName(k) ==
    CASE k = "Text" -> Rel("extracted.txt")
      [] k = "Metadata" -> Rel("metadata.json")
      [] k = "Pdf" -> Rel("rendered.pdf")

\* the name of the artifact held by temporary file t
LeafOf(t) == IF t.kind = "Embedded" THEN EntryName(t.of) ELSE DerivedName(t.kind)

\* c1/c2/.../cn/leaf
Under(chain, leaf) == [abs |-> FALSE, comps |-> chain \o leaf.comps]

\* C5 as stated: every entry sent to the archive writer has the path
\* c1/.../cn/leaf, c1..cn the checksums on the embedding path below the root
\* down to the file the entry belongs to, leaf the artifact's name
C5_AsStated ==
    \A i \in DOMAIN forwarded :
        forwarded[i].zip_path = Under(ChainOf(forwarded[i].path.of), LeafOf(forwarded[i].path))

\* ------------------------------------------------------------------------
\* C6
\* ------------------------------------------------------------------------

\* C6 as stated: an Embedded artifact with checksum c found under the chain
\* [c1..cn] is about to be archived at c1/.../cn/c/name
C6_AsStated ==
    \A w \in Workers :
        (worker[w].pc = "send" /\ worker[w].output.tag = "Embedded") =>
            worker[w].entry.zip_path =
                Under(Append(worker[w].output.state, worker[w].output.checksum),
                      worker[w].output.name)

\* ------------------------------------------------------------------------
\* C7
\* ------------------------------------------------------------------------

\* number of entries sent to the archive-entry channel for temporary file t
Count(t) == Cardinality({i \in DOMAIN forwarded : forwarded[i].path = t})

\* the artifact waits in the pool or is being handled by a pool thread
Pending(item) ==
    \/ \E i \in DOMAIN jobs : jobs[i] = item
    \/ \E w \in Workers : worker[w].output = item

Launched(n) == {k \in Kind : strat[n][k] # "absent"}

\* C8: with recurse = true every engine call carries the --types of the root
\* call, and the strategies it launches are those of the requested kinds that
\* resolve for the file's media type
C8_SameKinds ==
    recurse => \A n \in Node :
        /\ ctx[n].status # "none" => ctx[n].types = types
        /\ (ctx[n].status \in {"running", "ok"} \/ Launched(n) # {}) =>
              Launched(n) = {k \in Kind : Contains(types, k) /\ Resolves(k, Files[n].mimetype)}

\* the engine call on the jpeg, two levels down, ran the Text strategy it was
\* asked for
C8_Witness ==
    /\ recurse
    /\ types = <<"Text", "Embedded">>
    /\ ctx["image_jpg"].status = "ok"
    /\ strat["image_jpg"]["Text"] = "ok"

\* ------------------------------------------------------------------------
\* C9
\* ------------------------------------------------------------------------

Depth(n) == Len(ChainOf(n))

\* the id_chain of every engine call: empty for the root, otherwise the chain
\* of the call on the holding file followed by the file's checksum
ChainInv ==
    \A n \in Node : ctx[n].status # "none" =>
        /\ ctx[n].id_chain =
              (IF n = root THEN <<>>
               ELSE Append(ctx[Parent(n)].id_chain, Files[n].sum))
        /\ Len(ctx[n].id_chain) = Depth(n)

\* no step changes the id_chain of an engine call
ChainKept ==
    \A n \in Node : ctx[n].status # "none" => ctx'[n].id_chain = ctx[n].id_chain

\* C9: the chain of a recursive engine call is the chain of the call that
\* found the file followed by the file's checksum, the root's chain is empty,
\* a call at depth d has d entries, and no step removes or reorders entries
C9_Chain == []ChainInv /\ [][ChainKept]_vars

\* the engine call on the jpeg in the inner zip runs with the chain Z1, Z2
C9_Witness ==
    /\ ctx["image_jpg"].status = "running"
    /\ ctx["image_jpg"].id_chain = <<"Z1", "Z2">>
    /\ ctx["inner_zip"].id_chain = <<"Z1">>

\* ------------------------------------------------------------------------
\* C10
\* ------------------------------------------------------------------------

\* C10 as stated: when the program ends and the archive writer did not fail,
\* every Embedded artifact handle_outputs received has exactly one entry
C10_AsStated ==
    (exited /\ archive.pc # "err") =>
        \A item \in received : item.tag = "Embedded" => Count(item.path) = 1

\* ------------------------------------------------------------------------
\* C11
\* ------------------------------------------------------------------------

\* the strategies determine_processors resolves for the root
RootStrategies == {k \in Kind : Contains(types, k) /\ Resolves(k, Files[root].mimetype)}

RecvErr == pump = "recv" /\ outputs # <<>> /\ ~IsOk(Head(outputs)) /\ outputs' = Tail(outputs)

\* no job, pool thread or archive entry stems from an error item
NoErrEntry ==
    /\ \A item \in received : item.tag # "Err"
    /\ \A i \in DOMAIN jobs : jobs[i].tag # "Err"
    /\ \A w \in Workers : worker[w].output.tag # "Err"
    /\ \A i \in DOMAIN forwarded :
          forwarded[i].path \notin sent /\ forwarded[i].path.kind # "Entry"

Calls == {n \in Node : ctx[n].status \in {"spawned", "running"}}

\* C13: handle_outputs has returned only if the output channel is closed and
\* empty, no job is queued, no pool thread runs one and no engine call is in
\* progress; the last Sender of the archive-entry channel is dropped only when
\* handle_outputs has returned; and an archive that was finalized holds every
\* entry of every artifact handle_outputs received, in the order they were sent
C13_ClosesLast ==
    /\ pump = "done" =>
          /\ senders = 0 /\ outputs = <<>>
          /\ jobs = <<>> /\ \A w \in Workers : Idle(w)
          /\ Calls = {}
    /\ arcSenders = 0 => pump = "done"
    /\ archive.pc = "ok" =>
          /\ archive.pushed = forwarded
          /\ \A item \in received : Count(item.path) = 1

\* the finalized archive of the zip in a zip, after two recursive engine calls
C13_Witness ==
    /\ recurse /\ root = "outer_zip" /\ types = <<"Text", "Embedded">>
    /\ ctx["inner_zip"].status = "ok" /\ ctx["image_jpg"].status = "ok"
    /\ archive.pc = "ok" /\ Len(archive.pushed) = 3

\* ------------------------------------------------------------------------
\* C14
\* ------------------------------------------------------------------------

\* number of Embedded artifacts in a sequence of items
RECURSIVE EmbeddedIn(_)
EmbeddedIn(seq) ==
    IF seq = <<>> THEN 0
    ELSE (IF Head(seq).tag = "Embedded" THEN 1 ELSE 0) + EmbeddedIn(Tail(seq))

RECURSIVE Sum(_, _)
Sum(f, S) ==
    IF S = {} THEN 0
    ELSE LET x == CHOOSE y \in S : TRUE IN f[x] + Sum(f, S \ {x})

\* pool threads inside the Embedded arm, before its end
Recursing == {w \in Workers : worker[w].pc = "recurse"}

\* the Sender handles that are alive: one per engine call in progress (its
\* ctx), one per pending strategy (inner_ctx), one per Embedded artifact in
\* the channel or in the pool queue, one per Embedded arm in progress
Holders ==
    Cardinality(Calls)
        + Sum([n \in Node |-> Cardinality(Running(strat[n]))], Node)
        + EmbeddedIn(outputs) + EmbeddedIn(jobs)
        + Cardinality(Recursing)

\* C14: every engine call in progress, every pending strategy and every
\* Embedded artifact that is in the channel, queued in the pool or in the
\* Embedded arm of a pool thread holds a Sender of the one output channel;
\* while there is one, handle_outputs is in its receive loop with its Receiver
\* alive, so no strategy is pending once the Receiver is dropped
C14_SenderHeld ==
    /\ senders = Holders
    /\ senders > 0 => (pump = "recv" /\ ~outClosed)
    /\ outClosed => \A n \in Node : Running(strat[n]) = {}

\* the root call and the call on the inner zip have returned; the one Sender
\* left is inside the jpeg's Embedded artifact, found two levels down and
\* queued in the pool, and handle_outputs is still receiving
C14_Witness ==
    /\ recurse /\ root = "outer_zip"
    /\ ctx[root].status = "ok" /\ ctx["inner_zip"].status = "ok"
    /\ jobs # <<>> /\ Head(jobs).path = Temp("image_jpg", "Embedded")
    /\ Len(Head(jobs).state) = 1
    /\ senders = 1 /\ pump = "recv"

\* ------------------------------------------------------------------------
\* C15
\* ------------------------------------------------------------------------

\* ArchiveBuilder::build was called and returned Ok
Finalized == archive.pc = "ok"

\* C15 as stated: the archive is finalized only if the root engine call
\* returned Ok and handle_outputs returned, and, unless the archive writer
\* itself failed, it is finalized by the end of every such run
C15_AsStated ==
    /\ Finalized => (ctx[root].status = "ok" /\ pump = "done")
    /\ (exited /\ archive.pc # "err" /\ ctx[root].status = "ok" /\ pump = "done")
          => Finalized

\* ------------------------------------------------------------------------
\* C16
\* ------------------------------------------------------------------------

\* build_archive returned Err
ArchiveErr == archive.pc = "err"

RECURSIVE Holding(_, _)
Holding(seq, t) ==
    IF seq = <<>> THEN 0
    ELSE (IF Head(seq).path = t THEN 1 ELSE 0) + Holding(Tail(seq), t)

\* owners of the TempPath t after its strategy has sent it: the items in the
\* two channels and in the pool queue, and the pool threads
Owners(t) ==
    Holding(outputs, t) + Holding(jobs, t) + Holding(entries, t)
        + Cardinality({w \in Workers : ~Idle(w) /\ worker[w].output.path = t})

Temps == {Temp(n, k) : n \in Node, k \in Kind}

\* TempPaths owned by jobs of the pool: the pool's threads are not unwound
\* when main returns, so these are never dropped
HeldByPool ==
    {jobs[i].path : i \in DOMAIN jobs}
        \cup {worker[w].output.path : w \in {v \in Workers : ~Idle(v)}}

\* C17 as stated: a temporary file has at most one owner; while an engine call
\* reads an embedded file a pool thread owns it; when the program has ended
\* no temporary file is left undeleted
C17_AsStated ==
    /\ \A t \in Temps : Owners(t) <= 1
    /\ \A n \in Calls \ {root} :
          \E w \in Workers : worker[w].pc = "recurse"
                                /\ worker[w].output.path = Temp(n, "Embedded")
    /\ exited => HeldByPool = {}

\* ------------------------------------------------------------------------
\* C18
\* ------------------------------------------------------------------------

\* a job left the pool queue
Dequeued == jobs # <<>> /\ jobs' = Tail(jobs)

\* C18: at most OUTPUT_HANDLING_THREADS artifacts are being handled and at
\* most that many recursive engine calls are in progress, each inside the
\* pool thread that started it; a queued artifact leaves the queue only into
\* a thread that was idle
C18_PoolBound ==
    /\ [](Cardinality(Busy) <= PoolSize)
    /\ [](Cardinality(Calls \ {root}) <= Cardinality(Recursing))
    /\ [](Cardinality(Recursing) <= PoolSize)
    /\ [][Dequeued => \E w \in Workers :
                          Idle(w) /\ worker'[w].output = Head(jobs)]_vars

\* every pool thread is busy, one of them inside a recursive engine call, and
\* a further received artifact waits in the queue
C18_Witness ==
    /\ Cardinality(Busy) = PoolSize
    /\ Recursing # {}
    /\ jobs # <<>>

\* ------------------------------------------------------------------------
\* C19
\* ------------------------------------------------------------------------

\* the computation of reader r has returned a checksum
Done(r) == dedupe.run # <<>> /\ dedupe.run[r].pc = "done"

\* C19 as stated: for a media type other than message/rfc822 the checksum is
\* the MD5 of the payload: the digest was fed the payload's bytes, in order,
\* and nothing else
C19_AsStated ==
    \A r \in Readers :
        (Done(r) /\ dedupe.run[r].mimetype # "message/rfc822") =>
            dedupe.run[r].checksum = compute(dedupe.run[r].payload)

\* ------------------------------------------------------------------------
\* C20
\* ------------------------------------------------------------------------

\* C20 as stated: dedupe_checksum_from_path and dedupe_checksum over a reader
\* of the same bytes, with the same media type, return the same checksum
\* however the two readers split the payload into reads
C20_AsStated ==
    (Done("from_path") /\ Done("reader")
        /\ dedupe.run["from_path"].payload = dedupe.run["reader"].payload
        /\ dedupe.run["from_path"].mimetype = dedupe.run["reader"].mimetype) =>
        dedupe.run["from_path"].checksum = dedupe.run["reader"].checksum

\* ------------------------------------------------------------------------
\* C21
\* ------------------------------------------------------------------------

\* the Message-ID of the input of call r, if it has one
IdOf(r) == message_id(dedupe.run[r].payload)

\* both calls are on message/rfc822 inputs that have a Message-ID and both
\* have returned a checksum
BothById ==
    /\ Done("from_path") /\ Done("reader")
    /\ \A r \in Readers : dedupe.run[r].mimetype = "message/rfc822" /\ IdOf(r) # <<>>

\* C21 as stated: two messages with the same Message-ID have the same
\* checksum, two with different Message-IDs have different checksums, and the
\* digest was fed the Message-ID and nothing else
C21_AsStated ==
    BothById =>
        /\ (IdOf("from_path") = IdOf("reader"))
              <=> (dedupe.run["from_path"].checksum = dedupe.run["reader"].checksum)
        /\ \A r \in Readers : dedupe.run[r].checksum = compute(IdOf(r)[1])

\* ------------------------------------------------------------------------
\* C22
\* ------------------------------------------------------------------------

\* C22: for an empty input the checksum returned is the MD5 of no bytes,
\* under every media type, message/rfc822 included
C22_EmptyInput ==
    \A r \in Readers :
        (Done(r) /\ dedupe.run[r].payload = <<>>)
            => dedupe.run[r].checksum = compute(<<>>)

\* an empty message/rfc822 input and an empty input of another media type
\* have both gone through dedupe_checksum
C22_Witness ==
    /\ Done("from_path") /\ Done("reader")
    /\ \A r \in Readers : dedupe.run[r].payload = <<>>
    /\ dedupe.run["from_path"].mimetype = "message/rfc822"
    /\ dedupe.run["reader"].mimetype = "application/zip"

\* ------------------------------------------------------------------------
\* C23
\* ------------------------------------------------------------------------

\* the same bytes, without a Message-ID, given under message/rfc822 to
\* dedupe_checksum_from_path and under another media type to dedupe_checksum
FallbackPair ==
    /\ dedupe.run # <<>>
    /\ dedupe.run["from_path"].payload = dedupe.run["reader"].payload
    /\ IdOf("from_path") = <<>>
    /\ dedupe.run["from_path"].mimetype = "message/rfc822"
    /\ dedupe.run["reader"].mimetype # "message/rfc822"

\* C23 as stated: a message/rfc822 input without a Message-ID gets the
\* checksum the same bytes get under another media type, and a call ends in
\* an error only when a read of the caller's reader failed
C23_AsStated ==
    /\ (FallbackPair /\ Done("from_path") /\ Done("reader"))
          => dedupe.run["from_path"].checksum = dedupe.run["reader"].checksum
    /\ \A r \in Readers :
          (dedupe.run # <<>> /\ dedupe.run[r].pc = "err") => ~dedupe.run[r].cursor

\* ------------------------------------------------------------------------
\* C24
\* ------------------------------------------------------------------------

\* the media types the specification excludes from text extraction
Excluded == {"text/plain", "text/css", "text/csv", "text/javascript",
             "application/zip", "application/mbox"}

\* the engine call on n has launched its strategies and Text was requested
TextRequested(n) ==
    ctx[n].status \in {"running", "ok", "err"} /\ Contains(ctx[n].types, "Text")

\* the extracted.txt of n is in the output channel or was taken off it
ExtractedTxt(n) ==
    \/ \E i \in DOMAIN outputs : outputs[i].path = Temp(n, "Text")
    \/ \E item \in received : item.path = Temp(n, "Text")

\* C24 as stated: with Text requested, a file of an excluded media type gets
\* no text strategy and no extracted.txt
C24_AsStated ==
    \A n \in Node :
        (TextRequested(n) /\ ctx[n].mimetype \in Excluded)
            => (strat[n]["Text"] = "absent" /\ ~ExtractedTxt(n))

\* ------------------------------------------------------------------------
\* C25
\* ------------------------------------------------------------------------

\* the media types the dispatch table has an arm for
Dispatched == Excluded \cup {"message/rfc822"}

\* C25 as stated: with Text requested, an input of a media type the dispatch
\* table does not know gets no extracted.txt, and no text extraction that
\* could fail is run on it
C25_AsStated ==
    (TextRequested(root) /\ ctx[root].mimetype \notin Dispatched)
        => (strat[root]["Text"] = "absent" /\ ~ExtractedTxt(root))

\* ------------------------------------------------------------------------
\* C26
\* ------------------------------------------------------------------------

\* position of kind k in the order Text, Metadata, Pdf, Embedded
KindIndex(k) == CHOOSE i \in DOMAIN Kinds : Kinds[i] = k

\* C26: the list determine_processors returns names only requested kinds, in
\* the order Text, Metadata, Pdf, Embedded and so each at most once, whatever
\* the order and multiplicity of the request; two calls with the same media
\* type and request return the same list
C26_Dispatch ==
    processors.ret # <<>> =>
        /\ \A c \in Twice :
              LET list == processors.ret[c].list
              IN /\ \A i \in DOMAIN list : Contains(processors.types, list[i])
                 /\ \A i, j \in DOMAIN list :
                       i < j => KindIndex(list[i]) < KindIndex(list[j])
        /\ (\A c \in Twice : processors.ret[c].done)
              => processors.ret["first"].list = processors.ret["second"].list

\* a message dispatched twice for Embedded, Text, Embedded: Text comes first
\* and Embedded once
C26_Witness ==
    /\ processors.ret # <<>>
    /\ processors.mimetype = "message/rfc822"
    /\ processors.types = <<"Embedded", "Text", "Embedded">>
    /\ \A c \in Twice :
          processors.ret[c].done /\ processors.ret[c].list = <<"Text", "Embedded">>

\* ------------------------------------------------------------------------
\* C27
\* ------------------------------------------------------------------------

\* the Embedded artifact of the i-th entry of n
EntryItem(n, i) ==
    embedded(ctx[n], Files[n].entries[i],
             EntryMimetype(ctx[n].mimetype, Files[n].entries[i]))

\* item is in the output channel or was taken off it by handle_outputs
Emitted(item) ==
    \/ \E i \in DOMAIN outputs : outputs[i] = item
    \/ item \in received

\* the file entries of n
FileEntries(n) == {i \in DOMAIN Files[n].entries : Files[n].entries[i].kind = "file"}

\* the Embedded strategy of n never returns an error for an entry, it returns
\* success past the last entry, and then every file entry was emitted unless
\* an error item was
EntryErrorsKept ==
    \A n \in Node :
        /\ strat[n]["Embedded"] = "err" => pos[n] = 0
        /\ pos[n] > Len(Files[n].entries) => strat[n]["Embedded"] = "ok"
        /\ (strat[n]["Embedded"] = "ok" /\ Temp(n, "Entry") \notin sent)
              => \A i \in FileEntries(n) : Emitted(EntryItem(n, i))

\* one iteration on a file entry puts exactly one item into the channel, the
\* artifact of the entry or one error item, and whichever it is the strategy
\* goes on to the next entry, or returns success after the last
EntryStep ==
    \A n \in Node :
        (strat[n]["Embedded"] = "run" /\ pos[n] >= 1 /\ pos'[n] # pos[n]) =>
            /\ pos'[n] = pos[n] + 1
            /\ strat'[n]["Embedded"] =
                  IF pos[n] = Len(Files[n].entries) THEN "ok" ELSE "run"
            /\ pos[n] \in FileEntries(n) =>
                  \/ outputs' = Append(outputs, ErrItem(n, "Entry"))
                  \/ outputs' = Append(outputs, EntryItem(n, pos[n]))

\* C27: a failure on one entry of an mbox, rfc822 or zip file is emitted as
\* one error item and the strategy continues with the remaining entries, each
\* readable one emitted as an Embedded artifact, and returns success
C27_EntryErrors == []EntryErrorsKept /\ [][EntryStep]_vars

\* the first message of the mbox file failed and its error item was sent; the
\* strategy went on, emitted the second message and returned success
C27_Witness ==
    /\ root = "box_mbox"
    /\ Temp("box_mbox", "Entry") \in sent
    /\ ~Emitted(EntryItem("box_mbox", 1))
    /\ EntryItem("box_mbox", 2) \in received
    /\ strat["box_mbox"]["Embedded"] = "ok"
    /\ ctx["box_mbox"].status = "ok"

\* ------------------------------------------------------------------------
\* C28
\* ------------------------------------------------------------------------

\* the input is a ZIP that has entries, all of them directories
DirsOnly ==
    /\ Files[root].mimetype = "application/zip"
    /\ Files[root].entries # <<>>
    /\ FileEntries(root) = {}

\* what the Embedded strategy of the root has put into the channel
FromEmbedded ==
    {item \in received \cup Range(outputs) :
        item.tag = "Embedded" \/ item.path = Temp(root, "Entry")}

EntriesOf(p, items) ==
    {item \in items : item.tag = "Embedded" /\ Parent(item.path.of) = p}

\* index in its parent of the entry an Embedded artifact was made from
IndexOf(item) ==
    CHOOSE i \in FileEntries(Parent(item.path.of)) :
        Files[Parent(item.path.of)].entries[i].file = item.path.of

Sends(n, k) ==
    /\ strat[n][k] = "run"
    /\ k = "Embedded" => pos[n] \in FileEntries(n)

\* strategy k of n makes its step
Stepped(n, k) ==
    \/ strat'[n][k] \notin {strat[n][k], "dropped"}
    \/ k = "Embedded" /\ pos'[n] # pos[n]

\* C30: once the Receiver of the output channel is dropped nothing enters the
\* channel any more; the next send of each strategy fails, the strategy
\* returns the error and the engine call returns an error
C30_SendFails ==
    /\ [](outClosed => outputs = <<>>)
    /\ [][\A n \in Node, k \in Kind :
             (outClosed /\ Sends(n, k) /\ Stepped(n, k))
                 => /\ strat'[n][k] = "err"
                    /\ ctx'[n].status = "err"
                    /\ outputs' = <<>> /\ sent' = sent /\ received' = received]_vars

\* handle_outputs failed on the first mbox message and dropped the Receiver;
\* the send of the second message failed and the engine call returned an error
C30_Witness ==
    /\ root = "box_mbox"
    /\ outClosed /\ pump = "err"
    /\ received = {EntryItem("box_mbox", 1)}
    /\ pos["box_mbox"] = 3
    /\ strat["box_mbox"]["Embedded"] = "err"
    /\ ctx["box_mbox"].status = "err"

\* ------------------------------------------------------------------------
\* C31
\* ------------------------------------------------------------------------

\* the strategy has sent its one item, and the renderer was called: the
\* message was read and parsed, the output file created, the HTML made
Rendered ==
    /\ render.pc = "done"
    /\ render.env.input = "ok" /\ render.env.create /\ render.env.transform

RenderedPdf == processed(ctx[root], root, "Pdf", "rendered.pdf", "application/pdf")

\* C31: when the renderer exits with code 1 the strategy emits rendered.pdf,
\* provided the PDF can be written to its file; when the renderer cannot be
\* started or ends with another non-zero code or by a signal, the strategy
\* emits an error item and no rendered.pdf
C31_ExitCodes ==
    Rendered =>
        /\ (render.env.spawn /\ render.env.code = <<1>> /\ render.env.write)
              => render.emitted = <<RenderedPdf>>
        /\ (~render.env.spawn \/ render.env.code \notin {<<0>>, <<1>>})
              => (render.emitted # <<RenderedPdf>> /\ render.emitted[1].tag = "Err")

\* the renderer exited with code 1 and rendered.pdf was emitted
C31_Witness ==
    /\ Rendered
    /\ render.env.spawn /\ render.env.code = <<1>> /\ render.env.io
    /\ render.emitted = <<RenderedPdf>>

\* ------------------------------------------------------------------------
\* C33
\* ------------------------------------------------------------------------

\* identify_mimetype has returned
Identified == identify.pc = 0

\* layer i answered a media type that it rejects
Rejected(i) ==
    \/ identify.answers[Layers[i]] = "application/octet-stream"
    \/ i = 1 /\ identify.answers[Layers[i]] = "text/plain"

\* layer i is the first layer that did not reject its answer
FirstKept(i) == ~Rejected(i) /\ \A j \in 1..(i - 1) : Rejected(j)

\* C33: identify_mimetype returns the answer of the first layer, in the order
\* xdg-mime, Tika, file-format, that is not application/octet-stream (nor
\* text/plain for xdg-mime), none when every layer is rejected, and it has
\* consulted the layers up to that one and no later layer
C33_Layers ==
    Identified =>
        /\ \A i \in DOMAIN Layers :
              (FirstKept(i) /\ identify.answers[Layers[i]] # "error")
                  => /\ identify.ret = Some(identify.answers[Layers[i]])
                     /\ identify.consulted = SubSeq(Layers, 1, i)
        /\ (\A i \in DOMAIN Layers : Rejected(i))
              => (identify.ret = None /\ identify.consulted = Layers)

\* xdg-mime answered text/plain, Tika application/octet-stream, and the
\* answer of the file-format table was returned
C33_Witness ==
    /\ Identified
    /\ identify.answers["xdg_mime"] = "text/plain"
    /\ identify.answers["tika"] = "application/octet-stream"
    /\ identify.ret = Some("application/zip")
    /\ identify.consulted = Layers

\* ------------------------------------------------------------------------
\* C34
\* ------------------------------------------------------------------------

\* C34 as stated: when a layer returns a hard error, identify_mimetype returns
\* that error with the path attached as context, and the layers after it are
\* not consulted
C34_AsStated ==
    \A i \in DOMAIN Layers :
        (Identified /\ FirstKept(i) /\ identify.answers[Layers[i]] = "error")
            => /\ identify.ret.tag = "Err"
               /\ identify.ret.error = Layers[i]
               /\ identify.ret.context = <<"path">>
               /\ identify.consulted = SubSeq(Layers, 1, i)

\* ------------------------------------------------------------------------
\* C35
\* ------------------------------------------------------------------------

\* the text "name <addr>", "name", "<addr>" of an address, if it has one
Formatted(a) ==
    IF a.name # Absent /\ a.address # Absent
    THEN Present(a.name[1] \o <<" ", "<">> \o a.address[1] \o <<">">>)
    ELSE IF a.name # Absent THEN Present(a.name[1])
    ELSE IF a.address # Absent THEN Present(<<"<">> \o a.address[1] \o <<">">>)
    ELSE Absent

\* the texts of the addresses that have one, each but the first after ", "
RECURSIVE Joined(_, _)
Joined(addresses, first) ==
    IF addresses = <<>> THEN <<>>
    ELSE IF Formatted(Head(addresses)) = Absent THEN Joined(Tail(addresses), first)
    ELSE (IF first THEN <<>> ELSE <<",", " ">>) \o Formatted(Head(addresses))[1]
            \o Joined(Tail(addresses), FALSE)

DerivedOf ==
    [Text |-> <<Rel("extracted.txt"), "text/plain">>,
     Metadata |-> <<Rel("metadata.json"), "application/json">>,
     Pdf |-> <<Rel("rendered.pdf"), "application/pdf">>]

\* the item that this step puts on the output channel, if it is Processed
SentProcessed(item) ==
    /\ Len(outputs') = Len(outputs) + 1
    /\ item = outputs'[Len(outputs')]
    /\ item.tag = "Processed"

\* C32: a Processed artifact is extracted.txt of type text/plain,
\* metadata.json of type application/json or rendered.pdf of type
\* application/pdf, and the strategy run that sends one is over with the
\* send and never runs again, so it sends at most one
C32_Derived ==
    /\ [](\A i \in DOMAIN outputs :
             outputs[i].tag = "Processed" =>
                /\ outputs[i].path.kind \in DOMAIN DerivedOf
                /\ <<outputs[i].name, outputs[i].mimetype>> = DerivedOf[outputs[i].path.kind])
    /\ [][\A n \in DOMAIN strat : \A k \in DOMAIN strat[n] :
             /\ (\E item \in Range(outputs') :
                    SentProcessed(item) /\ item.path = Temp(n, k))
                   => strat[n][k] = "run" /\ strat'[n][k] = "ok"
             /\ strat[n][k] \in {"ok", "err", "reported"}
                   => n \in DOMAIN strat' /\ strat'[n][k] = strat[n][k]]_vars

\* the three Derived artifacts of one message have all been received
C32_Witness ==
    /\ root = "mail_eml"
    /\ \A k \in {"Text", "Metadata", "Pdf"} :
          \E item \in received :
             /\ item.tag = "Processed"
             /\ item.path = Temp("mail_eml", k)
             /\ <<item.name, item.mimetype>> = DerivedOf[k]

\* ------------------------------------------------------------------------
\* C36
\* ------------------------------------------------------------------------

\* two entries forwarded to the archive sink, of different temporary files
TwoForwarded(a, b) == a \in Range(forwarded) /\ b \in Range(forwarded) /\ a.path # b.path

\* C36: no two entries forwarded to the archive sink have the same archive
\* path
C36_AsStated ==
    \A a, b \in Range(forwarded) : TwoForwarded(a, b) => a.zip_path # b.zip_path

\* ------------------------------------------------------------------------
\* C37
\* ------------------------------------------------------------------------

\* the strategy summed the contents of an artifact through a Cursor and the
\* engine call summed the artifact's file, under the same media type
SameArtifact ==
    /\ Done("from_path") /\ Done("reader")
    /\ dedupe.run["reader"].origin = "cursor"
    /\ dedupe.run["from_path"].payload = dedupe.run["reader"].payload
    /\ dedupe.run["from_path"].mimetype = dedupe.run["reader"].mimetype

\* C37: the checksum the strategy attaches to an Embedded artifact equals the
\* checksum the recursive engine call computes for the artifact's file under
\* the artifact's media type
C37_AsStated ==
    SameArtifact => dedupe.run["reader"].checksum = dedupe.run["from_path"].checksum

\* ------------------------------------------------------------------------
\* C38
\* ------------------------------------------------------------------------

\* the files whose Embedded artifact has been forwarded to the archive sink
ForwardedFiles ==
    {forwarded[i].path.of : i \in {j \in DOMAIN forwarded :
                                      forwarded[j].path.kind = "Embedded"}}

\* the engine call on n is in progress
InCall(n) == ctx[n].status \in {"spawned", "running"}

\* the file whose strategies emitted item: the file itself for a Processed
\* artifact and for an Err, the container for an Embedded artifact
EmittedBy(item) == IF item.tag = "Embedded" THEN Parent(item.path.of) ELSE item.path.of

\* C38: with recurse = true, an Embedded artifact is forwarded only after the
\* engine call on it has returned, and no strategy of that call sends an item
\* to the output channel afterwards; while the call is in progress exactly
\* one pool thread is inside it, and a thread inside a call is not idle
C38_AfterReturn ==
    /\ [](recurse =>
            /\ \A n \in ForwardedFiles :
                  ~InCall(n) /\ \A k \in Kind : strat[n][k] # "run"
            /\ \A n \in Node :
                  (IsEmbedded(n) /\ InCall(n)) =>
                     /\ Cardinality({w \in Workers :
                           worker[w].pc = "recurse" /\ worker[w].output.path.of = n}) = 1
                     /\ n \notin ForwardedFiles)
    /\ [][(recurse /\ Len(outputs') = Len(outputs) + 1)
             => EmittedBy(outputs'[Len(outputs')]) \notin ForwardedFiles]_vars

\* the inner archive is forwarded after the image found in it was received
C38_Witness ==
    /\ recurse
    /\ root = "outer_zip"
    /\ "inner_zip" \in ForwardedFiles
    /\ \E item \in received : item.path = Temp("image_jpg", "Embedded")
    /\ ctx["inner_zip"].status = "ok"

\* ------------------------------------------------------------------------
\* C39
\* ------------------------------------------------------------------------

\* how often entry e occurs in the sequence s
Occurrences(s, e) == Cardinality({i \in DOMAIN s : s[i] = e})

\* C39: between calls that all returned Ok the pending batch holds fewer than
\* batch_size entries, none after a flush, and every entry pushed is either
\* pending or submitted to the stream, exactly once; a flush that fails
\* leaves the pending batch as it was
C39_Batcher ==
    /\ [](batcher.pc = "idle" =>
            /\ Len(batcher.batch) < batcher.batch_size
            /\ batcher.last = "flush" => batcher.batch = <<>>
            /\ \A e \in 1..batcher.pushed :
                  Occurrences(batcher.batch, e) + Occurrences(batcher.stream, e) = 1)
    /\ [][(batcher.pc = "flush" /\ batcher'.pc = "err")
             => batcher'.batch = batcher.batch]_vars

\* batch_size 2 after three pushes: two entries submitted, one pending
C39_Witness ==
    /\ batcher.pc = "idle"
    /\ batcher.batch_size = 2
    /\ batcher.pushed = 3
    /\ batcher.last = "push"
    /\ Len(batcher.stream) = 2
    /\ batcher.batch = <<3>>

====
